---- MODULE Spec2Model ----
(***************************************************************************)
(* Model of the Cook scheduler job client (cook/jobclient.py, cook/utils.py).*)
(*                                                                         *)
(* The client is stateless apart from its configuration.  A plain          *)
(* operation (generate_batch_request, query, submit) is one action that    *)
(* runs the whole call: the pending call and the scheduler's answers are   *)
(* drawn in Init, the action computes the requests put on the wire and the *)
(* value returned or the exception raised.  wait() is a generator and is   *)
(* modelled step by step (one action per position of the generator).       *)
(*                                                                         *)
(* The remote scheduler is the environment: it holds a status per job      *)
(* (sched) and answers a GET for a chunk with one job object per requested *)
(* identifier, in request order.  net says which request of a call, if any,*)
(* is not answered with success, and how.                                  *)
(***************************************************************************)
EXTENDS Integers, Sequences, FiniteSets, TLC

VARIABLES
    cfg,        \* client configuration set by __init__
    sched,      \* scheduler: job identifier -> status
    net,        \* scheduler/transport: which request of a call fails, and how
    call,       \* the pending (or last) plain operation and its arguments
    wire,       \* HTTP exchanges of the last call, in the order issued
    result,     \* what the last call returned or raised
    pc,         \* position of the caller / of the wait generator
    jobs,       \* wait: the caller-owned list of remaining identifiers
    ret,        \* wait: the list returned by the query of this pass
    idx,        \* wait: index in ret of the job the for loop is at
    yielded,    \* wait: jobs produced to the consumer so far (with poll no.)
    polls,      \* wait: number of query calls made (saturates at MaxPolls)
    sleeps,     \* wait: number of time.sleep calls made (saturates)
    orig,       \* wait: the identifier list as passed to wait
    reported,   \* wait: identifiers some successful query reported completed
    removedByCaller, \* wait: identifiers the caller took out of the list
    failedPolls \* wait: 1 once a query has raised JobClientError, 0 before

vars == <<cfg, sched, net, call, wire, result, pc, jobs, ret, idx, yielded,
          polls, sleeps, orig, reported, removedByCaller, failedPolls>>

waitVars == <<jobs, ret, idx, yielded, polls, sleeps, orig, reported,
              removedByCaller, failedPolls>>

----------------------------------------------------------------------------
(* Bounds *)

MaxLen == 4
MaxBatch == 3
MaxPolls == 3
MaxSubmit == 2
MaxWait == 2

Ids == {"a", "b", "c", "d"}

Statuses == {"running", "completed", "failed"}

----------------------------------------------------------------------------
(* Generic helpers *)

Min(a, b) == IF a < b THEN a ELSE b

Range(s) == {s[i] : i \in 1..Len(s)}

RECURSIVE Flatten(_)
Flatten(ss) == IF ss = <<>> THEN <<>> ELSE Head(ss) \o Flatten(Tail(ss))

\* F applied to the value of x.  TLC evaluates a LET definition or an operator
\* argument anew at every use while it computes ENABLED; here x is evaluated
\* once.
Bind(x, F(_)) == CHOOSE r \in {F(v) : v \in {x}} : TRUE

\* Python list.remove(x): drops the first occurrence of x.
RECURSIVE Remove(_, _)
Remove(s, x) ==
    IF s = <<>> THEN <<>>
    ELSE IF Head(s) = x THEN Tail(s)
    ELSE <<Head(s)>> \o Remove(Tail(s), x)

\* Sequences of pairwise distinct elements of S of length at most n.
DistinctSeqs(S, n) ==
    UNION {{s \in [1..k -> S] : \A i, j \in 1..k : i # j => s[i] # s[j]}
           : k \in 0..Min(n, Cardinality(S))}

----------------------------------------------------------------------------
(* cook/utils.py *)

\* "job={}".format(uid)
JobParam(uid) == <<"job", uid>>

\* Mutant: the slice jobs[i:i + batch_size - 1] drops the last job of a chunk.
RECURSIVE BatchFromShort(_, _, _)
BatchFromShort(js, batch_size, i) ==
    IF i >= Len(js) THEN <<>>
    ELSE LET chunk == SubSeq(js, i + 1, Min(i + batch_size - 1, Len(js)))
         IN  <<[k \in 1..Len(chunk) |-> JobParam(chunk[k])]>>
             \o BatchFromShort(js, batch_size, i + batch_size)

generate_batch_request_short(js, batch_size) == BatchFromShort(js, batch_size, 0)

RECURSIVE BatchFrom(_, _, _)
BatchFrom(js, batch_size, i) ==
    IF i >= Len(js) THEN <<>>
    ELSE LET chunk == SubSeq(js, i + 1, Min(i + batch_size, Len(js)))
         IN  <<[k \in 1..Len(chunk) |-> JobParam(chunk[k])]>>
             \o BatchFrom(js, batch_size, i + batch_size)

generate_batch_request(js, batch_size) == BatchFrom(js, batch_size, 0)

----------------------------------------------------------------------------
(* Transport *)

scheduler_endpoint == "/rawscheduler"
list_endpoint == "/list"
retry_endpoint == "/retry"

\* ''.join([endpoint, '?', '&'.join(r)])  and  "{}?job={}".format(endpoint, id)
Path(endpoint, params) == [endpoint |-> endpoint, query |-> params]

HttpResp(code, body) == [kind |-> "http", code |-> code, body |-> body]
ConnectionFailure == [kind |-> "connection", code |-> 0, body |-> <<>>]
TimeoutFailure == [kind |-> "timeout", code |-> 0, body |-> <<>>]

ErrorCodes == {403, 404, 500}

Failures == {HttpResp(c, <<>>) : c \in ErrorCodes}
            \cup {ConnectionFailure, TimeoutFailure}

\* requests.Response.raise_for_status: HTTPError for 4xx and 5xx.
RaisesForStatus(r) == r.kind = "http" /\ r.code >= 400 /\ r.code < 600

\* e.message of the HTTPError raise_for_status builds: "<code> Client Error:
\* <reason> for url: <url>" for 4xx, "<code> Server Error: ..." for 5xx.  The
\* body of the response is not part of it.
HTTPErrorMessage(r) ==
    [code |-> r.code,
     text |-> IF r.code < 500 THEN "Client Error" ELSE "Server Error"]

\* What a request raises inside requests, "none" when it returns normally.
RequestExc(r) ==
    IF r.kind = "connection" THEN "ConnectionError"
    ELSE IF r.kind = "timeout" THEN "Timeout"
    ELSE IF RaisesForStatus(r) THEN "HTTPError"
    ELSE "none"

\* net: the at-th request of a call is answered with net.answer, every other
\* request with the success answer of its endpoint (at = 0: all succeed).
NoFailure == [at |-> 0, answer |-> HttpResp(500, <<>>)]

Nets == {NoFailure}
        \cup [at : 1..MaxLen, answer : Failures]

\* The scheduler's body for a successful GET: one job object per requested
\* identifier, in the order requested.
JobObject(id, st) == [uuid |-> id, status |-> st]

GetBody(path, sc) ==
    [k \in 1..Len(path.query) |-> JobObject(path.query[k][2], sc[path.query[k][2]])]

\* The scheduler's body for a successful GET of the list endpoint: the jobs
\* in one of the states asked for, all jobs when no state is given.
ListBody(path, sc) ==
    LET asked == {k \in 1..Len(path.query) : path.query[k][1] = "state"}
        states == UNION {Range(path.query[k][2]) : k \in asked}
        all == <<"a", "b", "c", "d">>
        Wanted(id) == asked = {} \/ sc[id] \in states
        ids == SelectSeq(all, Wanted)
    IN  [k \in 1..Len(ids) |-> JobObject(ids[k], sc[ids[k]])]

\* The answer to the i-th request of a call.
Answer(method, path, i, nt, sc) ==
    IF nt.at = i THEN nt.answer
    ELSE IF method = "GET" /\ path.endpoint = list_endpoint
         THEN HttpResp(200, ListBody(path, sc))
    ELSE IF method = "GET" THEN HttpResp(200, GetBody(path, sc))
    ELSE IF method = "POST" /\ path.endpoint = scheduler_endpoint
         THEN HttpResp(201, <<>>)
    ELSE HttpResp(204, <<>>)

Exchange(method, path, data, resp) ==
    [method |-> method, path |-> path, data |-> data, resp |-> resp]

\* Index of the first request whose answer raises, 0 when none does.
FirstRaise(method, reqs, nt, sc) ==
    LET bad == {i \in 1..Len(reqs) :
                   RequestExc(Answer(method, reqs[i], i, nt, sc)) # "none"}
    IN  IF bad = {} THEN 0 ELSE CHOOSE i \in bad : \A j \in bad : i <= j

\* JobClient._api_get: the requests are sent one after the other; the first
\* one that raises ends the call.
ApiGetFrom(reqs, f, nt, sc) ==
    LET n == IF f = 0 THEN Len(reqs) ELSE f
        ex == [i \in 1..n |->
                 Exchange("GET", reqs[i], <<>>, Answer("GET", reqs[i], i, nt, sc))]
    IN  [wire |-> ex,
         exc |-> IF f = 0 THEN "none" ELSE RequestExc(ex[f].resp),
         req |-> IF f = 0 THEN [i \in 1..n |-> ex[i].resp] ELSE <<>>]

_api_get(reqs, nt, sc) ==
    Bind(FirstRaise("GET", reqs, nt, sc), LAMBDA f : ApiGetFrom(reqs, f, nt, sc))

----------------------------------------------------------------------------
(* Results of a call *)

Return(v) == [kind |-> "return", exc |-> "none", val |-> v]
Raise(e) == [kind |-> "raise", exc |-> e, val |-> <<>>]
RaiseMsg(e, m) == [kind |-> "raise", exc |-> e, val |-> m]
NoResult == [kind |-> "none", exc |-> "none", val |-> <<>>]

----------------------------------------------------------------------------
(* JobClient.query *)

QueryRequests(js, batch_size) ==
    IF Len(js) > 1
    THEN LET b == generate_batch_request(js, batch_size)
         IN  [i \in 1..Len(b) |-> Path(scheduler_endpoint, b[i])]
    ELSE <<Path(scheduler_endpoint, <<JobParam(js[1])>>)>>

\* Mutant: the HTTPError is passed on as it is.
ReraiseHTTPError(exc, r) ==
    IF exc = "HTTPError" THEN RaiseMsg("HTTPError", HTTPErrorMessage(r))
    ELSE Raise(exc)

\* The except clause: raise JobClientError(e.message) for an HTTPError;
\* anything else passes through.  r is the response that raised.
Reraise(exc, r) ==
    IF exc = "HTTPError" THEN RaiseMsg("JobClientError", HTTPErrorMessage(r))
    ELSE Raise(exc)

Bodies(req) == [i \in 1..Len(req) |-> req[i].body]

\* Mutant: the decoded bodies are collected last response first.
QueryResultReversed(g) ==
    [wire |-> g.wire,
     result |-> IF g.exc = "none"
                THEN Return(Bind([i \in 1..Len(g.req) |->
                                    g.req[Len(g.req) + 1 - i].body],
                                 LAMBDA bs : Flatten(bs)))
                ELSE Reraise(g.exc, g.wire[Len(g.wire)].resp)]

\* The try block of query: ret.extend(resp.json()) for every response.
QueryResult(g) ==
    [wire |-> g.wire,
     result |-> IF g.exc = "none"
                THEN Return(Bind(Bodies(g.req), LAMBDA bs : Flatten(bs)))
                ELSE Reraise(g.exc, g.wire[Len(g.wire)].resp)]

QueryCall(js, batch_size, nt, sc) ==
    IF Len(js) = 0
    THEN [wire |-> <<>>, result |-> Raise("AssertionError")]
    ELSE Bind(QueryRequests(js, batch_size),
              LAMBDA reqs : Bind(_api_get(reqs, nt, sc), QueryResult))

\* JobClient._api_post: one request; raise_for_status ends the call.
_api_post(path, data, nt, sc) ==
    LET r == Answer("POST", path, 1, nt, sc)
    IN  [wire |-> <<Exchange("POST", path, data, r)>>,
         exc |-> RequestExc(r),
         r |-> r]

----------------------------------------------------------------------------
(* Job descriptions: a dict is a function from field names to values; a     *)
(* value carries its Python type.                                          *)

PyStr(x) == [t |-> "str", s |-> x, n |-> 0, v |-> <<>>]
PyInt(x) == [t |-> "int", s |-> "", n |-> x, v |-> <<>>]
\* A float, held in tenths: PyFloat(1005) is 100.5.
PyFloat(tenths) == [t |-> "float", s |-> "", n |-> tenths, v |-> <<>>]
PyList(x) == [t |-> "list", s |-> "", n |-> 0, v |-> x]
PyDatetime(ms) == [t |-> "datetime", s |-> "", n |-> ms, v |-> <<>>]
PyNone == [t |-> "none", s |-> "", n |-> 0, v |-> <<>>]

\* Strings uuid.UUID() parses; every other string makes it raise ValueError.
GenUUIDs == <<"g1", "g2", "g3", "g4">>
UUIDStrings == {"u1", "u2", "u3"} \cup Range(GenUUIDs)

\* str(uuid1()): the k-th identifier generated during a call.
Uuid1(k) == PyStr(GenUUIDs[k])

\* The strings int() parses, with their values.
IntOfStr == ("7" :> 7) @@ ("101" :> 101)

\* int() of a float drops the fraction, towards zero.
Truncate(tenths) ==
    IF tenths >= 0 THEN tenths \div 10 ELSE 0 - ((0 - tenths) \div 10)

\* Use(int): int(v).  It raises for a string that is not a number and for
\* None, a list or a datetime; the validator then sees the converted value.
UseInt(v) ==
    IF v.t = "int" THEN [ok |-> TRUE, n |-> v.n]
    ELSE IF v.t = "float" THEN [ok |-> TRUE, n |-> Truncate(v.n)]
    ELSE IF v.t = "str" /\ v.s \in DOMAIN IntOfStr
         THEN [ok |-> TRUE, n |-> IntOfStr[v.s]]
    ELSE [ok |-> FALSE, n |-> 0]

\* The validators of JobClient._job_schema, by field.
FieldOk(f, v) ==
    IF f = "uuid" THEN v.t = "str" /\ v.s # "" /\ v.s \in UUIDStrings
    ELSE IF f = "name" THEN v.t = "str" /\ v.s # ""
    ELSE IF f = "priority" THEN UseInt(v).ok /\ 0 <= UseInt(v).n /\ UseInt(v).n <= 100
    ELSE IF f = "max_retries" THEN UseInt(v).ok /\ UseInt(v).n > 0
    ELSE FALSE

SchemaKeys == {"uuid", "name", "priority", "max_retries"}

\* Schema([{...}]).validate(jobs): every job has only known keys, has the
\* required key and passes every validator.
JobOk(j) ==
    /\ DOMAIN j \subseteq SchemaKeys
    /\ "max_retries" \in DOMAIN j
    /\ \A f \in DOMAIN j : FieldOk(f, j[f])

SchemaValidate(js) == \A i \in 1..Len(js) : JobOk(js[i])

----------------------------------------------------------------------------
(* JobClient.submit *)

\* Number of jobs among the first i that come without a uuid.
RECURSIVE Missing(_, _)
Missing(js, i) ==
    IF i = 0 THEN 0
    ELSE Missing(js, i - 1) + (IF "uuid" \in DOMAIN js[i] THEN 0 ELSE 1)

\* j.update(dict(defaults.items() + j.items())): the job's own items win.
MergeDefaults(defaults, j) ==
    [f \in DOMAIN defaults \cup DOMAIN j |->
        IF f \in DOMAIN j THEN j[f] ELSE defaults[f]]

\* Mutant: the defaults are applied over the job's own items.
PrepareDefaultsWin(defaults, js, i) ==
    LET j == js[i]
        withUuid == IF "uuid" \in DOMAIN j THEN j
                    ELSE ("uuid" :> Uuid1(Missing(js, i))) @@ j
    IN  MergeDefaults(withUuid, defaults)

\* The body of the for loop for the i-th job: uuid first, then the defaults.
Prepare(defaults, js, i) ==
    LET j == js[i]
        withUuid == IF "uuid" \in DOMAIN j THEN j
                    ELSE ("uuid" :> Uuid1(Missing(js, i))) @@ j
    IN  MergeDefaults(defaults, withUuid)

\* Mutant: the jobs are validated as the caller passed them.
SubmitValidateFirst(js, defaults, nt, sc) ==
    IF Len(js) = 0
    THEN [wire |-> <<>>, result |-> Raise("AssertionError")]
    ELSE LET prepared == [i \in 1..Len(js) |-> Prepare(defaults, js, i)]
         IN  IF ~SchemaValidate(js)
             THEN [wire |-> <<>>, result |-> Raise("SchemaError")]
             ELSE LET p == _api_post(Path(scheduler_endpoint, <<>>),
                                     [jobs |-> prepared], nt, sc)
                  IN  [wire |-> p.wire,
                       result |->
                          IF p.exc = "none"
                          THEN Return([i \in 1..Len(js) |-> prepared[i]["uuid"]])
                          ELSE Reraise(p.exc, p.r)]

\* Mutant: the request is sent before the jobs are validated.
SubmitPostFirst(js, defaults, nt, sc) ==
    IF Len(js) = 0
    THEN [wire |-> <<>>, result |-> Raise("AssertionError")]
    ELSE LET prepared == [i \in 1..Len(js) |-> Prepare(defaults, js, i)]
             p == _api_post(Path(scheduler_endpoint, <<>>),
                            [jobs |-> prepared], nt, sc)
         IN  IF ~SchemaValidate(prepared)
             THEN [wire |-> p.wire, result |-> Raise("SchemaError")]
             ELSE [wire |-> p.wire,
                   result |->
                      IF p.exc = "none"
                      THEN Return([i \in 1..Len(js) |-> prepared[i]["uuid"]])
                      ELSE Reraise(p.exc, p.r)]

\* Mutant: the uuids are returned last job first.
SubmitReversed(js, defaults, nt, sc) ==
    IF Len(js) = 0
    THEN [wire |-> <<>>, result |-> Raise("AssertionError")]
    ELSE LET prepared == [i \in 1..Len(js) |-> Prepare(defaults, js, i)]
         IN  IF ~SchemaValidate(prepared)
             THEN [wire |-> <<>>, result |-> Raise("SchemaError")]
             ELSE LET p == _api_post(Path(scheduler_endpoint, <<>>),
                                     [jobs |-> prepared], nt, sc)
                  IN  [wire |-> p.wire,
                       result |->
                          IF p.exc = "none"
                          THEN Return([i \in 1..Len(js) |->
                                          prepared[Len(js) + 1 - i]["uuid"]])
                          ELSE Reraise(p.exc, p.r)]

SubmitCall(js, defaults, nt, sc) ==
    IF Len(js) = 0
    THEN [wire |-> <<>>, result |-> Raise("AssertionError")]
    ELSE LET prepared == [i \in 1..Len(js) |-> Prepare(defaults, js, i)]
         IN  IF ~SchemaValidate(prepared)
             THEN [wire |-> <<>>, result |-> Raise("SchemaError")]
             ELSE LET p == _api_post(Path(scheduler_endpoint, <<>>),
                                     [jobs |-> prepared], nt, sc)
                  IN  [wire |-> p.wire,
                       result |->
                          IF p.exc = "none"
                          THEN Return([i \in 1..Len(js) |-> prepared[i]["uuid"]])
                          ELSE Reraise(p.exc, p.r)]

----------------------------------------------------------------------------
(* The operations from their first line, with arguments of any type *)

\* A jobs argument is a list of identifiers or some other value, a str.

\* assert isinstance(jobs, list); assert len(jobs) > 0
JobsAsserted(jobsArg) == jobsArg.t = "list" /\ Len(jobsArg.v) > 0

AssertionFailed == [wire |-> <<>>, result |-> Raise("AssertionError")]

\* JobClient.query, from its first line.
query(jobsArg, batch_size, nt, sc) ==
    IF ~JobsAsserted(jobsArg) THEN AssertionFailed
    ELSE QueryCall(jobsArg.v, batch_size, nt, sc)

\* JobClient.submit, from its first line.
submit(jobsArg, defaults, nt, sc) ==
    IF ~JobsAsserted(jobsArg) THEN AssertionFailed
    ELSE SubmitCall(jobsArg.v, defaults, nt, sc)

----------------------------------------------------------------------------
(* JobClient.delete *)

\* JobClient._api_delete: as _api_get, with requests.delete.
ApiDeleteFrom(reqs, f, nt, sc) ==
    LET n == IF f = 0 THEN Len(reqs) ELSE f
        ex == [i \in 1..n |->
                 Exchange("DELETE", reqs[i], <<>>,
                          Answer("DELETE", reqs[i], i, nt, sc))]
    IN  [wire |-> ex,
         exc |-> IF f = 0 THEN "none" ELSE RequestExc(ex[f].resp),
         req |-> IF f = 0 THEN [i \in 1..n |-> ex[i].resp] ELSE <<>>]

_api_delete(reqs, nt, sc) ==
    Bind(FirstRaise("DELETE", reqs, nt, sc),
         LAMBDA f : ApiDeleteFrom(reqs, f, nt, sc))

\* The try block of delete: nothing is returned.
DeleteResult(g) ==
    [wire |-> g.wire,
     result |-> IF g.exc = "none" THEN Return(<<>>)
                ELSE Reraise(g.exc, g.wire[Len(g.wire)].resp)]

\* The requests of delete, built as those of query.
DeleteRequests(js, batch_size) ==
    IF Len(js) > 1
    THEN LET b == generate_batch_request(js, batch_size)
         IN  [i \in 1..Len(b) |-> Path(scheduler_endpoint, b[i])]
    ELSE <<Path(scheduler_endpoint, <<JobParam(js[1])>>)>>

delete(jobsArg, batch_size, nt, sc) ==
    IF ~JobsAsserted(jobsArg) THEN AssertionFailed
    ELSE Bind(DeleteRequests(jobsArg.v, batch_size),
              LAMBDA reqs : Bind(_api_delete(reqs, nt, sc), DeleteResult))

----------------------------------------------------------------------------
(* JobClient.retry *)

\* "{}?job={}&retries={}".format(self._retry_endpoint, job, retries)
RetryPath(job, retries) ==
    Path(retry_endpoint, <<JobParam(job), <<"retries", retries>>>>)

\* The net as the i-th _api_post of a call sees it.
NetAt(nt, i) == IF nt.at = i THEN [nt EXCEPT !.at = 1] ELSE NoFailure

\* The for loop of retry from the i-th job on: one _api_post per job, the
\* first one that raises ends the loop.
RECURSIVE RetryFrom(_, _, _, _, _)
RetryFrom(js, retries, i, nt, sc) ==
    IF i > Len(js) THEN [wire |-> <<>>, result |-> Return(<<>>)]
    ELSE LET p == _api_post(RetryPath(js[i], retries), <<>>, NetAt(nt, i), sc)
         IN  IF p.exc # "none"
             THEN [wire |-> p.wire, result |-> Reraise(p.exc, p.r)]
             ELSE LET rest == RetryFrom(js, retries, i + 1, nt, sc)
                  IN  [wire |-> p.wire \o rest.wire, result |-> rest.result]

\* Mutant: the identifiers are sent in chunks, as query and delete do.
retry_batched(jobsArg, retries, batch_size, nt, sc) ==
    IF ~JobsAsserted(jobsArg) \/ retries < 0 THEN AssertionFailed
    ELSE LET b == generate_batch_request(jobsArg.v, batch_size)
             ex == [i \in 1..Len(b) |->
                      LET path == Path(retry_endpoint,
                                       Append(b[i], <<"retries", retries>>))
                      IN  Exchange("POST", path, <<>>,
                                   Answer("POST", path, i, nt, sc))]
         IN  [wire |-> ex, result |-> Return(<<>>)]

\* Mutant: the loop goes on after a request that raised.
retry_all(jobsArg, retries, batch_size, nt, sc) ==
    IF ~JobsAsserted(jobsArg) \/ retries < 0 THEN AssertionFailed
    ELSE LET js == jobsArg.v
             ps == [i \in 1..Len(js) |->
                      _api_post(RetryPath(js[i], retries), <<>>, NetAt(nt, i), sc)]
             bad == {i \in 1..Len(js) : ps[i].exc # "none"}
             f == IF bad = {} THEN 0 ELSE CHOOSE i \in bad : \A k \in bad : i <= k
         IN  [wire |-> [i \in 1..Len(js) |-> ps[i].wire[1]],
              result |-> IF f = 0 THEN Return(<<>>)
                         ELSE Reraise(ps[f].exc, ps[f].r)]

\* Mutant: the requests are sent before the arguments are checked.
retry_unchecked(jobsArg, retries, batch_size, nt, sc) ==
    LET js == IF jobsArg.t = "list" THEN jobsArg.v ELSE <<>>
        sent == RetryFrom(js, retries, 1, nt, sc)
    IN  IF ~JobsAsserted(jobsArg) \/ retries < 0
        THEN [wire |-> sent.wire, result |-> Raise("AssertionError")]
        ELSE sent

\* batch_size is the configured batch request size, which retry does not read.
retry(jobsArg, retries, batch_size, nt, sc) ==
    IF ~JobsAsserted(jobsArg) \/ retries < 0 THEN AssertionFailed
    ELSE RetryFrom(jobsArg.v, retries, 1, nt, sc)

----------------------------------------------------------------------------
(* JobClient.list *)

\* A Python value is true unless it is None, 0, "" or [].
Truthy(x) ==
    IF x.t = "none" THEN FALSE
    ELSE IF x.t = "int" THEN x.n # 0
    ELSE IF x.t = "list" THEN x.v # <<>>
    ELSE IF x.t = "str" THEN x.s # ""
    ELSE TRUE

\* The parameters of the list request, in the order they are appended.
ListParams(a) ==
    <<<<"user", a.user>>>>
    \o (IF Truthy(a.state) THEN <<<<"state", a.state.v>>>> ELSE <<>>)
    \o (IF Truthy(a.start_time) THEN <<<<"start_ms", a.start_time.n>>>> ELSE <<>>)
    \o (IF Truthy(a.stop_time) THEN <<<<"stop_ms", a.stop_time.n>>>> ELSE <<>>)
    \o (IF Truthy(a.limit) THEN <<<<"limit", a.limit.n>>>> ELSE <<>>)

list(a, nt, sc) ==
    IF \/ Truthy(a.start_time) /\ a.start_time.t # "datetime"
       \/ Truthy(a.stop_time) /\ a.stop_time.t # "datetime"
    THEN AssertionFailed
    ELSE LET g == _api_get(<<Path(list_endpoint, ListParams(a))>>, nt, sc)
         IN  [wire |-> g.wire,
              result |-> IF g.exc = "none" THEN Return(g.req[1].body)
                         ELSE Reraise(g.exc, g.wire[Len(g.wire)].resp)]

----------------------------------------------------------------------------
(* Plain operations *)

IdLists == DistinctSeqs(Ids, MaxLen)

\* Job descriptions a caller submits: with or without a uuid (well formed or
\* not), with or without max_retries and priority, in and out of range.
JobSamples ==
    LET uuids == {<<>>} \cup {("uuid" :> PyStr(u)) : u \in {"u1", "u2", "foobar"}}
        retries == {<<>>} \cup {("max_retries" :> PyInt(n)) : n \in {0, 3}}
        prios == {("priority" :> PyInt(n)) : n \in {0, 100, 101, -1}}
    IN  {u @@ r : u \in uuids, r \in retries}
        \cup {p @@ ("uuid" :> PyStr("u1")) @@ ("max_retries" :> PyInt(3)) : p \in prios}
        \cup {("priority" :> PyInt(100)), ("priority" :> PyInt(101))}

\* default_job_settings a client is built with.
DefaultSamples ==
    {<<>>,
     ("max_retries" :> PyInt(1)),
     ("max_retries" :> PyInt(0)),
     ("max_retries" :> PyInt(1)) @@ ("priority" :> PyInt(50)),
     ("max_retries" :> PyInt(1)) @@ ("priority" :> PyInt(101)),
     ("max_retries" :> PyInt(1)) @@ ("uuid" :> PyStr("u3")),
     ("max_retries" :> PyInt(1)) @@ ("uuid" :> PyStr("foobar"))}

JobLists == UNION {[1..k -> JobSamples] : k \in 0..MaxSubmit}

OpsScheds ==
    {[i \in Ids |-> IF i \in S THEN "completed" ELSE "running"]
       : S \in {{}, {"a"}, {"b", "d"}, Ids}}

BatchCalls == [op : {"generate_batch_request"}, jobs : IdLists,
               batch_size : 1..MaxBatch]

QueryCalls == [op : {"query"}, jobs : IdLists, batch_size : {0}]

SubmitCalls == [op : {"submit"}, jobs : JobLists, batch_size : {0}]

DefaultConfig == [batch_request_size |-> MaxBatch,
                  default_job_settings |-> ("max_retries" :> PyInt(1))]

Configs == [batch_request_size : 1..MaxBatch,
            default_job_settings : DefaultSamples]

InitWaitIdle ==
    /\ jobs = <<>> /\ ret = <<>> /\ idx = 0 /\ yielded = <<>>
    /\ polls = 0 /\ sleeps = 0 /\ orig = <<>> /\ reported = {}
    /\ removedByCaller = {} /\ failedPolls = 0

\* The client after __init__, with one call pending.  Only what the pending
\* call reads is varied.
InitOps ==
    /\ call \in BatchCalls \cup QueryCalls \cup SubmitCalls
    /\ cfg \in Configs
    /\ sched \in OpsScheds
    /\ net \in Nets
    /\ call.op = "generate_batch_request" =>
           cfg = DefaultConfig /\ net = NoFailure /\ sched \in OpsScheds
    /\ call.op = "query" =>
           cfg.default_job_settings = DefaultConfig.default_job_settings
    /\ call.op = "submit" =>
           /\ cfg.batch_request_size = DefaultConfig.batch_request_size
           /\ net.at <= 1
           /\ sched = [i \in Ids |-> "running"]
    /\ wire = <<>>
    /\ result = NoResult
    /\ pc = "Ready"
    /\ InitWaitIdle

BatchRequest ==
    /\ pc = "Ready"
    /\ call.op = "generate_batch_request"
    /\ result' = Return(generate_batch_request(call.jobs, call.batch_size))
    /\ wire' = <<>>
    /\ pc' = "Returned"
    /\ UNCHANGED <<cfg, sched, net, call, waitVars>>

Query ==
    /\ pc = "Ready"
    /\ call.op = "query"
    /\ \E q \in {QueryCall(call.jobs, cfg.batch_request_size, net, sched)} :
           /\ wire' = q.wire
           /\ result' = q.result
    /\ pc' = "Returned"
    /\ UNCHANGED <<cfg, sched, net, call, waitVars>>

Submit ==
    /\ pc = "Ready"
    /\ call.op = "submit"
    /\ \E q \in {SubmitCall(call.jobs, cfg.default_job_settings, net, sched)} :
           /\ wire' = q.wire
           /\ result' = q.result
    /\ pc' = "Returned"
    /\ UNCHANGED <<cfg, sched, net, call, waitVars>>

NextOps == BatchRequest \/ Query \/ Submit

SpecOps == InitOps /\ [][NextOps]_vars

----------------------------------------------------------------------------
(* The five operations, with arguments of any type and any response status *)

\* Statuses the scheduler answers with: errors a caller causes, errors of the
\* server, and statuses other than the expected one that are not errors.
CallerCodes == {400, 401, 403, 404, 409, 422}
ServerCodes == {500, 503}
PlainCodes == {200, 201, 202, 204}

ErrorBody == <<"reason">>

ErrorAnswers == {HttpResp(c, ErrorBody) : c \in CallerCodes \cup ServerCodes}
                \cup {ConnectionFailure, TimeoutFailure}

PlainAnswers == {HttpResp(c, <<>>) : c \in PlainCodes}

CallNets == {NoFailure}
            \cup [at : 1..MaxLen, answer : ErrorAnswers \cup PlainAnswers]

JobsArgs == {PyList(l) : l \in IdLists} \cup {PyStr("a")}

\* Jobs with numbers at and around the bounds of priority and max_retries:
\* -1, -0.5, 0, 0.5, 1, 50.5, 100, 100.5, 101.
NumberSamples ==
    {PyInt(n) : n \in {-1, 0, 1, 100, 101}}
    \cup {PyFloat(n) : n \in {-5, 5, 505, 1005}}

NumericJobs ==
    {("uuid" :> PyStr("u1")) @@ ("priority" :> p) @@ ("max_retries" :> PyInt(3))
       : p \in NumberSamples}
    \cup {("uuid" :> PyStr("u1")) @@ ("max_retries" :> r) : r \in NumberSamples}
    \cup {("uuid" :> PyStr("u1"))}

SubmitArgs == {PyList(l) : l \in JobLists}
              \cup {PyList(<<j>>) : j \in NumericJobs}
              \cup {PyStr("a")}

CallDefaults == {("max_retries" :> r) : r \in {PyInt(1), PyInt(0), PyFloat(5)}}

ListArgs ==
    [user : {"alice"},
     state : {PyNone, PyList(<<>>), PyStr("running"),
              PyList(<<"running", "completed">>)},
     start_time : {PyNone, PyDatetime(1000), PyInt(1000)},
     stop_time : {PyNone, PyDatetime(2000), PyInt(2000)},
     limit : {PyNone, PyInt(0), PyInt(2)}]

NoListArgs == [user |-> "alice", state |-> PyNone, start_time |-> PyNone,
               stop_time |-> PyNone, limit |-> PyNone]

RetriesArgs == {-1, 0, 2}

Calls ==
    [op : {"query", "delete"}, jobs : JobsArgs, retries : {0}, args : {NoListArgs}]
    \cup [op : {"retry"}, jobs : JobsArgs, retries : RetriesArgs,
          args : {NoListArgs}]
    \cup [op : {"submit"}, jobs : SubmitArgs, retries : {0}, args : {NoListArgs}]
    \cup [op : {"list"}, jobs : {PyList(<<>>)}, retries : {0}, args : ListArgs]

\* The client after __init__, with one call pending.
InitCalls ==
    /\ call \in Calls
    /\ cfg \in [batch_request_size : 1..MaxBatch,
                default_job_settings : CallDefaults]
    /\ sched = [i \in Ids |-> IF i \in {"b", "d"} THEN "completed" ELSE "running"]
    /\ net \in CallNets
    /\ call.op # "submit" =>
           cfg.default_job_settings = DefaultConfig.default_job_settings
    /\ call.op \in {"query", "list"} => net.answer \notin PlainAnswers
    /\ call.op \in {"submit", "list"} =>
           net.at <= 1 /\ cfg.batch_request_size = DefaultConfig.batch_request_size
    /\ wire = <<>>
    /\ result = NoResult
    /\ pc = "Ready"
    /\ InitWaitIdle

Finished(q) ==
    /\ wire' = q.wire
    /\ result' = q.result
    /\ pc' = "Returned"
    /\ UNCHANGED <<cfg, sched, net, call, waitVars>>

CallQuery ==
    /\ pc = "Ready" /\ call.op = "query"
    /\ \E q \in {query(call.jobs, cfg.batch_request_size, net, sched)} :
           Finished(q)

CallSubmit ==
    /\ pc = "Ready" /\ call.op = "submit"
    /\ \E q \in {submit(call.jobs, cfg.default_job_settings, net, sched)} :
           Finished(q)

Delete ==
    /\ pc = "Ready" /\ call.op = "delete"
    /\ \E q \in {delete(call.jobs, cfg.batch_request_size, net, sched)} :
           Finished(q)

Retry ==
    /\ pc = "Ready" /\ call.op = "retry"
    /\ \E q \in {retry(call.jobs, call.retries, cfg.batch_request_size,
                        net, sched)} :
           Finished(q)

List ==
    /\ pc = "Ready" /\ call.op = "list"
    /\ \E q \in {list(call.args, net, sched)} : Finished(q)

NextCalls == CallQuery \/ CallSubmit \/ Delete \/ Retry \/ List

SpecCalls == InitCalls /\ [][NextCalls]_vars

----------------------------------------------------------------------------
(* JobClient.wait *)

\* The generator is at one of these positions:
\*   "Poll"       top of the while loop, about to call self.query(jobs)
\*   "Iter"       in the for loop, about to look at ret[idx]
\*   "Suspended"  at the yield, the consumer holds ret[idx]
\*   "Check"      after the for loop or the except clause, at "if len(jobs) > 0"
\*   "Done"       left the loop by break: the sequence has ended
\*   "Raised"     an exception left the generator and reached the consumer

Inc(n) == IF n < MaxPolls THEN n + 1 ELSE n

WaitIds == <<"a", "b", "c">>

\* The lists passed to wait.  The identifiers are interchangeable, so one list
\* of each length stands for all of them.
WaitLists == {SubSeq(WaitIds, 1, k) : k \in 0..MaxWait}

\* One identifier per request, or two.
WaitBatchSizes == {1, 2}

\* Ways a query of wait can fail: its first or its second request is
\* answered with an error status, or not answered at all.
WaitNets == {NoFailure}
            \cup [at : 1..2,
                  answer : {HttpResp(500, <<>>), ConnectionFailure, TimeoutFailure}]

InitWait ==
    /\ cfg \in [batch_request_size : WaitBatchSizes,
                default_job_settings : {DefaultConfig.default_job_settings}]
    /\ orig \in WaitLists
    /\ jobs = orig
    /\ sched = [i \in Ids |-> "running"]
    /\ net = NoFailure
    /\ call = [op |-> "wait", jobs |-> orig, batch_size |-> 0]
    /\ wire = <<>>
    /\ result = NoResult
    /\ pc = "Poll"
    /\ ret = <<>> /\ idx = 0 /\ yielded = <<>>
    /\ polls = 0 /\ sleeps = 0 /\ reported = {}
    /\ removedByCaller = {} /\ failedPolls = 0

\* The scheduler moves a job that is still waited for to another status.
\* Only the state at the time of a query is observed, so the steps of the
\* scheduler and of the network are taken while no pass is under way.
SchedUpdate ==
    /\ pc = "Poll"
    /\ \E id \in Range(jobs), st \in Statuses :
          /\ st # sched[id]
          /\ sched' = [sched EXCEPT ![id] = st]
    /\ UNCHANGED <<cfg, net, call, wire, result, pc, waitVars>>

\* Number of requests the query of this pass sends when none fails.
Requests == IF Len(jobs) = 0 THEN 0
            ELSE Len(QueryRequests(jobs, cfg.batch_request_size))

\* The scheduler or the network starts or stops failing.  A pass sees only
\* the net at its query, so going from one failure to another is two steps.
NetChange ==
    /\ pc = "Poll"
    /\ \E n \in WaitNets :
          /\ n # net
          /\ net = NoFailure \/ n = NoFailure
          /\ n.at <= Requests
          /\ net' = n
    /\ UNCHANGED <<cfg, sched, call, wire, result, pc, waitVars>>

\* Mutant: every pass asks for the whole list passed to wait.
PollOriginalList ==
    /\ pc = "Poll"
    /\ UNCHANGED <<cfg, sched, net, call, jobs, yielded, sleeps, orig,
                   removedByCaller>>
    /\ \E q \in {QueryCall(orig, cfg.batch_request_size, net, sched)} :
           /\ wire' = q.wire
           /\ result' = q.result
           /\ polls' = Inc(polls)
           /\ IF q.result.kind = "return"
              THEN /\ ret' = q.result.val
                   /\ idx' = 1
                   /\ reported' = reported \cup
                         {q.result.val[i].uuid : i \in
                            {k \in 1..Len(q.result.val) :
                               q.result.val[k].status = "completed"}}
                   /\ failedPolls' = failedPolls
                   /\ pc' = "Iter"
              ELSE /\ ret' = <<>>
                   /\ idx' = 0
                   /\ reported' = reported
                   /\ IF q.result.exc = "JobClientError"
                      THEN failedPolls' = 1 /\ pc' = "Check"
                      ELSE failedPolls' = failedPolls /\ pc' = "Raised"

\* Mutant: the jobs of the chunks answered before the failing one are
\* processed.
PollKeepsPartial ==
    /\ pc = "Poll"
    /\ UNCHANGED <<cfg, sched, net, call, jobs, yielded, sleeps, orig,
                   removedByCaller>>
    /\ \E q \in {QueryCall(jobs, cfg.batch_request_size, net, sched)} :
           /\ wire' = q.wire
           /\ result' = q.result
           /\ polls' = Inc(polls)
           /\ IF q.result.kind = "return"
              THEN /\ ret' = q.result.val
                   /\ idx' = 1
                   /\ reported' = reported \cup
                         {q.result.val[i].uuid : i \in
                            {k \in 1..Len(q.result.val) :
                               q.result.val[k].status = "completed"}}
                   /\ failedPolls' = failedPolls
                   /\ pc' = "Iter"
              ELSE /\ reported' = reported
                   /\ IF q.result.exc = "JobClientError"
                      THEN /\ ret' = Flatten([i \in 1..(Len(q.wire) - 1) |->
                                                q.wire[i].resp.body])
                           /\ idx' = 1
                           /\ failedPolls' = 1
                           /\ pc' = "Iter"
                      ELSE /\ ret' = <<>>
                           /\ idx' = 0
                           /\ failedPolls' = failedPolls
                           /\ pc' = "Raised"

\* self.query(jobs=jobs) at the head of the for loop.  JobClientError is
\* caught and logged; any other exception leaves the generator.
Poll ==
    /\ pc = "Poll"
    /\ UNCHANGED <<cfg, sched, net, call, jobs, yielded, sleeps, orig,
                   removedByCaller>>
    /\ \E q \in {QueryCall(jobs, cfg.batch_request_size, net, sched)} :
           /\ wire' = q.wire
           /\ result' = q.result
           /\ polls' = Inc(polls)
           /\ IF q.result.kind = "return"
              THEN /\ ret' = q.result.val
                   /\ idx' = 1
                   /\ reported' = reported \cup
                         {q.result.val[i].uuid : i \in
                            {k \in 1..Len(q.result.val) :
                               q.result.val[k].status = "completed"}}
                   /\ failedPolls' = failedPolls
                   /\ pc' = "Iter"
              ELSE /\ ret' = <<>>
                   /\ idx' = 0
                   /\ reported' = reported
                   /\ IF q.result.exc = "JobClientError"
                      THEN failedPolls' = 1 /\ pc' = "Check"
                      ELSE failedPolls' = failedPolls /\ pc' = "Raised"

\* Mutant: a job that is not completed is taken out of the list.
IterSkipDropsJob ==
    /\ pc = "Iter" /\ idx <= Len(ret)
    /\ ret[idx].status # "completed"
    /\ idx' = idx + 1
    /\ jobs' = Remove(jobs, ret[idx].uuid)
    /\ UNCHANGED <<cfg, sched, net, call, wire, result, pc, ret,
                   yielded, polls, sleeps, orig, reported, removedByCaller,
                   failedPolls>>

\* for job in ...: a job that is not completed is passed over.
IterSkip ==
    /\ pc = "Iter" /\ idx <= Len(ret)
    /\ ret[idx].status # "completed"
    /\ idx' = idx + 1
    /\ UNCHANGED <<cfg, sched, net, call, wire, result, pc, jobs, ret,
                   yielded, polls, sleeps, orig, reported, removedByCaller,
                   failedPolls>>

\* Mutant: a completed job is yielded and stays in the list.
IterYieldKeepsJob ==
    /\ pc = "Iter" /\ idx <= Len(ret)
    /\ ret[idx].status = "completed"
    /\ ret[idx].uuid \in Range(jobs)
    /\ yielded' = Append(yielded, [job |-> ret[idx], poll |-> polls])
    /\ pc' = "Suspended"
    /\ UNCHANGED <<cfg, sched, net, call, wire, result, jobs, ret, idx, polls,
                   sleeps, orig, reported, removedByCaller, failedPolls>>

\* A completed job is removed from the list, then yielded.
IterYield ==
    /\ pc = "Iter" /\ idx <= Len(ret)
    /\ ret[idx].status = "completed"
    /\ ret[idx].uuid \in Range(jobs)
    /\ jobs' = Remove(jobs, ret[idx].uuid)
    /\ yielded' = Append(yielded, [job |-> ret[idx], poll |-> polls])
    /\ pc' = "Suspended"
    /\ UNCHANGED <<cfg, sched, net, call, wire, result, ret, idx, polls,
                   sleeps, orig, reported, removedByCaller,
                   failedPolls>>

\* jobs.remove(x) raises ValueError when x is no longer in the list.
IterValueError ==
    /\ pc = "Iter" /\ idx <= Len(ret)
    /\ ret[idx].status = "completed"
    /\ ret[idx].uuid \notin Range(jobs)
    /\ result' = Raise("ValueError")
    /\ pc' = "Raised"
    /\ UNCHANGED <<cfg, sched, net, call, wire, jobs, ret, idx, yielded,
                   polls, sleeps, orig, reported, removedByCaller,
                   failedPolls>>

\* The consumer asks for the next job: the for loop goes on.
Resume ==
    /\ pc = "Suspended"
    /\ idx' = idx + 1
    /\ pc' = "Iter"
    /\ UNCHANGED <<cfg, sched, net, call, wire, result, jobs, ret, yielded,
                   polls, sleeps, orig, reported, removedByCaller,
                   failedPolls>>

\* The for loop is over.
EndPass ==
    /\ pc = "Iter" /\ idx > Len(ret)
    /\ pc' = "Check"
    /\ UNCHANGED <<cfg, sched, net, call, wire, result, jobs, ret, idx,
                   yielded, polls, sleeps, orig, reported, removedByCaller,
                   failedPolls>>

\* Mutant: the loop goes to the next query without sleeping.
SleepSkipped ==
    /\ pc = "Check" /\ Len(jobs) > 0
    /\ pc' = "Poll"
    /\ UNCHANGED <<cfg, sched, net, call, wire, result, jobs, ret, idx,
                   yielded, polls, sleeps, orig, reported, removedByCaller,
                   failedPolls>>

\* len(jobs) > 0: time.sleep(status_update_interval_secs), then loop.
Sleep ==
    /\ pc = "Check" /\ Len(jobs) > 0
    /\ sleeps' = Inc(sleeps)
    /\ pc' = "Poll"
    /\ UNCHANGED <<cfg, sched, net, call, wire, result, jobs, ret, idx,
                   yielded, polls, orig, reported, removedByCaller,
                   failedPolls>>

\* Mutant: the loop has no break.
FinishLoops ==
    /\ pc = "Check" /\ Len(jobs) = 0
    /\ pc' = "Poll"
    /\ UNCHANGED <<cfg, sched, net, call, wire, result, jobs, ret, idx,
                   yielded, polls, sleeps, orig, reported, removedByCaller,
                   failedPolls>>

\* else: break
Finish ==
    /\ pc = "Check" /\ Len(jobs) = 0
    /\ pc' = "Done"
    /\ UNCHANGED <<cfg, sched, net, call, wire, result, jobs, ret, idx,
                   yielded, polls, sleeps, orig, reported, removedByCaller,
                   failedPolls>>

\* While it holds a yielded job the caller takes an identifier out of its
\* list.
CallerRemove ==
    /\ pc = "Suspended"
    /\ \E id \in Range(jobs) :
          /\ jobs' = Remove(jobs, id)
          /\ removedByCaller' = removedByCaller \cup {id}
    /\ UNCHANGED <<cfg, sched, net, call, wire, result, pc, ret, idx,
                   yielded, polls, sleeps, orig, reported, failedPolls>>

WaitStep == Poll \/ IterSkip \/ IterYield \/ Resume \/ EndPass \/ Sleep \/ Finish

NextWait == WaitStep \/ SchedUpdate \/ NetChange

SpecWait == InitWait /\ [][NextWait]_vars

\* The consumer keeps pulling and the generator keeps running.
LiveWait == SpecWait /\ WF_vars(WaitStep)

NextWaitCaller == NextWait \/ IterValueError \/ CallerRemove

SpecWaitCaller == InitWait /\ [][NextWaitCaller]_vars

----------------------------------------------------------------------------
(* Properties of the plain operations *)

CeilDiv(l, n) == (l + n - 1) \div n

Returned(op) == pc = "Returned" /\ call.op = op

\* C1: generate_batch_request(jobs, N) with N > 0 gives exactly ceil(L/N)
\* chunks, each of 1..N entries, only the last one possibly shorter than N,
\* whose concatenation is the input in order with every identifier rendered
\* as job=<id>; the empty input gives no chunk.
C1_Partition ==
    Returned("generate_batch_request") =>
        LET js == call.jobs
            n == call.batch_size
            b == result.val
        IN  /\ result.kind = "return"
            /\ Len(b) = CeilDiv(Len(js), n)
            /\ \A i \in 1..Len(b) : Len(b[i]) >= 1 /\ Len(b[i]) <= n
            /\ \A i \in 1..(Len(b) - 1) : Len(b[i]) = n
            /\ Flatten(b) = [k \in 1..Len(js) |-> <<"job", js[k]>>]
            /\ (js = <<>> => b = <<>>)

C1_Witness ==
    /\ Returned("generate_batch_request")
    /\ Len(call.jobs) = 4 /\ call.batch_size = 3
    /\ Len(result.val) = 2 /\ Len(result.val[2]) = 1

\* The path of the i-th chunk of js for chunk size n, written from the
\* positions of the identifiers.
ChunkPath(js, n, i) ==
    [endpoint |-> "/rawscheduler",
     query |-> [k \in 1..(Min(i * n, Len(js)) - (i - 1) * n) |->
                   <<"job", js[(i - 1) * n + k]>>]]

AllSucceeded == \A i \in 1..Len(wire) : wire[i].resp.kind = "http"
                                         /\ wire[i].resp.code < 400

\* C2 (as amended): query(jobs), L >= 1 identifiers, batch size N, issues GET
\* requests one per chunk in chunk order (for L = 1 the one request for the
\* single identifier) and stops at the first request that is not answered
\* with success; it issues all ceil(L/N) of them exactly when none before
\* the last fails, and when every request succeeds it returns the
\* concatenation of the decoded bodies in request order.
C2_QueryChunks ==
    (Returned("query") /\ Len(call.jobs) >= 1) =>
        LET js == call.jobs
            n == cfg.batch_request_size
            total == CeilDiv(Len(js), n)
        IN  /\ Len(wire) >= 1 /\ Len(wire) <= total
            /\ \A i \in 1..Len(wire) :
                   /\ wire[i].method = "GET"
                   /\ wire[i].path = ChunkPath(js, n, i)
            /\ \A i \in 1..(Len(wire) - 1) : wire[i].resp.kind = "http"
                                              /\ wire[i].resp.code < 400
            /\ (Len(js) = 1 => Len(wire) = 1 /\ Len(wire[1].path.query) = 1)
            /\ AllSucceeded <=> Len(wire) = total /\ result.kind = "return"
            /\ AllSucceeded =>
                   result = Return(Flatten([i \in 1..Len(wire) |->
                                              wire[i].resp.body]))

C2_Witness ==
    /\ Returned("query")
    /\ Len(call.jobs) = 4 /\ cfg.batch_request_size = 3
    /\ Len(wire) = 2 /\ AllSucceeded
    /\ Len(result.val) = 4
    /\ \E i, j \in 1..4 : result.val[i].status # result.val[j].status

\* C2 (as stated): for L > 1 exactly ceil(L/N) GET requests are issued, for
\* L = 1 exactly one, and when all succeed the bodies are concatenated.
C2_AsStated ==
    (Returned("query") /\ Len(call.jobs) >= 1) =>
        /\ Len(wire) = IF Len(call.jobs) > 1
                       THEN CeilDiv(Len(call.jobs), cfg.batch_request_size)
                       ELSE 1
        /\ \A i \in 1..Len(wire) :
               /\ wire[i].method = "GET"
               /\ wire[i].path = ChunkPath(call.jobs, cfg.batch_request_size, i)
        /\ AllSucceeded =>
               result = Return(Flatten([i \in 1..Len(wire) |->
                                          wire[i].resp.body]))

----------------------------------------------------------------------------
(* Properties of submit *)

Defaults == cfg.default_job_settings

\* The constraint the job schema puts on a field value.
InRange(f, v) ==
    CASE f = "uuid" -> v.t = "str" /\ v.s \in UUIDStrings
      [] f = "max_retries" -> v.t = "int" /\ v.n > 0
      [] f = "priority" -> v.t = "int" /\ v.n >= 0 /\ v.n <= 100
      [] OTHER -> TRUE

\* The value(s) of field f a job is submitted with by the precedence
\* job-supplied > client default > none; a default uuid is never used.
Effective(j, d, f) ==
    IF f \in DOMAIN j THEN {j[f]}
    ELSE IF f \in DOMAIN d /\ f # "uuid" THEN {d[f]}
    ELSE {}

ValidJob(j, d) ==
    /\ Effective(j, d, "max_retries") # {}
    /\ \A f \in {"uuid", "max_retries", "priority"} :
           \A v \in Effective(j, d, f) : InRange(f, v)

Synthesized(v) == v.t = "str" /\ v.s \in Range(GenUUIDs) /\ v.s \in UUIDStrings

Posted == Len(wire) = 1 /\ wire[1].method = "POST"
          /\ wire[1].path = [endpoint |-> "/rawscheduler", query |-> <<>>]

\* C3: submit of K valid jobs acknowledged with 201 sends exactly one POST
\* carrying the K jobs and returns K uuids in submission order: the caller's
\* uuid where one was supplied, otherwise a newly synthesized one that parses
\* as a UUID.
C3_SubmitRoundTrip ==
    (/\ Returned("submit") /\ Len(call.jobs) >= 1
     /\ \A i \in 1..Len(call.jobs) : ValidJob(call.jobs[i], Defaults)
     /\ net.at # 1) =>
        LET js == call.jobs
            out == result.val
        IN  /\ Posted
            /\ wire[1].resp.code = 201
            /\ Len(wire[1].data.jobs) = Len(js)
            /\ result.kind = "return"
            /\ Len(out) = Len(js)
            /\ \A i \in 1..Len(js) :
                   IF "uuid" \in DOMAIN js[i]
                   THEN out[i] = js[i]["uuid"]
                   ELSE /\ Synthesized(out[i])
                        /\ \A k \in 1..Len(js) : k # i => out[k] # out[i]
            /\ \A i \in 1..Len(js) : out[i] = wire[1].data.jobs[i]["uuid"]

C3_Witness ==
    /\ Returned("submit") /\ Len(call.jobs) = 2
    /\ "uuid" \notin DOMAIN call.jobs[1]
    /\ "uuid" \in DOMAIN call.jobs[2] /\ call.jobs[2]["uuid"] = PyStr("u2")
    /\ result.kind = "return" /\ Len(result.val) = 2
    /\ result.val[2] = PyStr("u2")
    /\ Posted /\ wire[1].resp.code = 201

\* C4: when any job of the batch violates any field constraint, submit raises
\* the validation error and sends no HTTP request at all.
C4_ValidationAllOrNothing ==
    (/\ Returned("submit") /\ Len(call.jobs) >= 1
     /\ \E i \in 1..Len(call.jobs) : ~ValidJob(call.jobs[i], Defaults)) =>
        /\ result = Raise("SchemaError")
        /\ wire = <<>>

C4_Witness ==
    /\ Returned("submit") /\ Len(call.jobs) = 2
    /\ ValidJob(call.jobs[1], Defaults)
    /\ "uuid" \in DOMAIN call.jobs[2] /\ call.jobs[2]["uuid"] = PyStr("foobar")
    /\ result = Raise("SchemaError") /\ wire = <<>>

\* C5 (as amended): every transmitted job carries, for every default field f
\* other than uuid, the caller's value when the caller supplied f and the
\* default otherwise; its uuid is the caller's when supplied and otherwise
\* the synthesized one, never a default uuid; it has no other fields.
C5_DefaultMerge ==
    (Returned("submit") /\ Len(wire) = 1) =>
        \A i \in 1..Len(call.jobs) :
            LET j == call.jobs[i]
                sent == wire[1].data.jobs[i]
            IN  /\ DOMAIN sent = DOMAIN j \cup DOMAIN Defaults \cup {"uuid"}
                /\ \A f \in DOMAIN j : sent[f] = j[f]
                /\ \A f \in DOMAIN Defaults \ (DOMAIN j \cup {"uuid"}) :
                       sent[f] = Defaults[f]
                /\ "uuid" \notin DOMAIN j => Synthesized(sent["uuid"])

C5_Witness ==
    /\ Returned("submit") /\ Len(wire) = 1 /\ Len(call.jobs) = 2
    /\ "priority" \in DOMAIN Defaults
    /\ "priority" \in DOMAIN call.jobs[1]
    /\ call.jobs[1]["priority"] # Defaults["priority"]
    /\ "priority" \notin DOMAIN call.jobs[2]
    /\ wire[1].data.jobs[1]["priority"] = call.jobs[1]["priority"]
    /\ wire[1].data.jobs[2]["priority"] = Defaults["priority"]

\* C5 (as stated): for every default field f, uuid included, the transmitted
\* job carries the caller's value when supplied and the default otherwise.
C5_AsStated ==
    (Returned("submit") /\ Len(wire) = 1) =>
        \A i \in 1..Len(call.jobs) :
            LET j == call.jobs[i]
                sent == wire[1].data.jobs[i]
            IN  /\ DOMAIN sent \ {"uuid"} \subseteq DOMAIN j \cup DOMAIN Defaults
                /\ \A f \in DOMAIN Defaults :
                       /\ f \in DOMAIN sent
                       /\ sent[f] = IF f \in DOMAIN j THEN j[f] ELSE Defaults[f]

Rejected == result = Raise("SchemaError") /\ wire = <<>>

OmitsRetries(j) == "max_retries" \notin DOMAIN j

DefaultRetriesPositive ==
    /\ "max_retries" \in DOMAIN Defaults
    /\ InRange("max_retries", Defaults["max_retries"])

\* Nothing but a missing max_retries can make the job invalid.
ValidButForRetries(j, d) ==
    \A f \in {"uuid", "priority"} : \A v \in Effective(j, d, f) : InRange(f, v)

\* C6 (as amended): the jobs are validated after uuid synthesis and default
\* merging: a batch whose jobs are otherwise valid and of which some omit
\* max_retries is accepted exactly when the defaults supply a max_retries
\* greater than 0, and a default value of a field other than uuid that
\* violates its constraint rejects every batch with a job that does not
\* override it.
C6_ValidateAfterMerge ==
    (Returned("submit") /\ Len(call.jobs) >= 1) =>
        LET js == call.jobs
        IN  /\ (/\ \A i \in 1..Len(js) :
                      /\ ValidButForRetries(js[i], Defaults)
                      /\ ~OmitsRetries(js[i]) =>
                             InRange("max_retries", js[i]["max_retries"])
                /\ \E i \in 1..Len(js) : OmitsRetries(js[i]))
               => (~Rejected <=> DefaultRetriesPositive)
            /\ (\E i \in 1..Len(js) :
                  \E f \in DOMAIN Defaults \ (DOMAIN js[i] \cup {"uuid"}) :
                      ~InRange(f, Defaults[f]))
               => Rejected
            /\ ~Rejected =>
                  \A i \in 1..Len(wire[1].data.jobs) :
                      \A f \in DOMAIN wire[1].data.jobs[i] :
                          InRange(f, wire[1].data.jobs[i][f])

C6_Witness ==
    /\ Returned("submit") /\ Len(call.jobs) = 2
    /\ OmitsRetries(call.jobs[1]) /\ ~OmitsRetries(call.jobs[2])
    /\ DefaultRetriesPositive
    /\ result.kind = "return"
    /\ wire[1].data.jobs[1]["max_retries"] = Defaults["max_retries"]

\* C6 (as stated): a violating default value of any field, uuid included,
\* rejects every batch with a job that does not supply that field.
C6_AsStated ==
    (Returned("submit") /\ Len(call.jobs) >= 1) =>
        ((\E i \in 1..Len(call.jobs) :
            \E f \in DOMAIN Defaults \ DOMAIN call.jobs[i] :
                ~InRange(f, Defaults[f]))
         => Rejected)

----------------------------------------------------------------------------
(* Properties of wait *)

\* The identifiers the query of this pass asked for, in request order.
PolledIds ==
    Flatten([i \in 1..Len(wire) |->
               [k \in 1..Len(wire[i].path.query) |-> wire[i].path.query[k][2]]])

\* A pass over the result of a successful query is under way or over.
InPass == pc \in {"Iter", "Suspended", "Check", "Done"} /\ result.kind = "return"

\* How many entries of ret the for loop has dealt with.
Processed ==
    IF pc = "Iter" THEN idx - 1
    ELSE IF pc = "Suspended" THEN idx
    ELSE Len(ret)

IsCompleted(job) == job.status = "completed"

CompletedSoFar == SelectSeq(SubSeq(ret, 1, Processed), IsCompleted)

YieldedIds == {yielded[i].job.uuid : i \in 1..Len(yielded)}

C7_PassInvariant ==
    /\ InPass =>
          LET c == CompletedSoFar
              before == Len(orig) - Len(PolledIds)
              StillWaited(id) == \A k \in 1..Len(c) : c[k].uuid # id
          IN  /\ jobs = SelectSeq(PolledIds, StillWaited)
              /\ Len(yielded) = before + Len(c)
              /\ \A k \in 1..Len(c) :
                     /\ yielded[before + k].job = c[k]
                     /\ polls < MaxPolls => yielded[before + k].poll = polls
    /\ \A i \in 1..Len(yielded) :
          /\ yielded[i].job.status = "completed"
          /\ yielded[i].job.uuid \notin Range(jobs)
    /\ pc = "Done" =>
          /\ jobs = <<>>
          /\ yielded # <<>>
          /\ polls < MaxPolls => yielded[Len(yielded)].poll = polls

\* C7: in a pass over a successful poll, wait yields exactly the jobs the
\* poll reports completed, in order, and removes each from the remaining
\* list as it is yielded; a job with another status is neither yielded nor
\* removed; once the list is empty after a pass the sequence ends at once,
\* with no further poll.
C7_YieldOnCompleted ==
    /\ []C7_PassInvariant
    /\ [][(pc = "Check" /\ jobs = <<>>) => (pc' = "Done" /\ polls' = polls)]_vars
    /\ [][pc' = "Done" => (pc = "Check" /\ jobs = <<>>)]_vars

\* The scenario of the claim: two polls, the second one reports completed.
C7_Witness ==
    /\ pc = "Done" /\ orig = <<"a">> /\ jobs = <<>>
    /\ polls = 2 /\ sleeps = 1
    /\ yielded = <<[job |-> [uuid |-> "a", status |-> "completed"], poll |-> 2]>>

\* C8: a query that fails during a pass, by an error status, a connection
\* failure or a timeout, does not reach the consumer and does not end the
\* loop: wait stays polling with its list unchanged.
C8_QueryErrorSwallowed ==
    (result.kind = "raise"
     /\ result.exc \in {"JobClientError", "ConnectionError", "Timeout"})
        => (pc \in {"Check", "Poll"} /\ jobs # <<>>)

\* Every identifier passed to wait has been reported completed by a
\* successful query.
AllReported == orig # <<>> /\ Range(orig) \subseteq reported

WaitDone == pc = "Done" /\ jobs = <<>>

\* C9: with a consumer that keeps pulling, once every identifier of the
\* distinct, non-empty list has been reported completed by a successful
\* query, wait reaches Done with an empty list, whatever polls failed or
\* found jobs not completed before.
C9_EventuallyDone == AllReported ~> WaitDone

\* Done after a poll that failed, a poll that found the job running and a
\* poll that reported it completed.
C9_Witness ==
    /\ WaitDone /\ AllReported
    /\ failedPolls = 1 /\ polls = 3 /\ sleeps = 2
    /\ Len(yielded) = Len(orig)

AllCompleted == \A id \in Range(jobs) : sched[id] = "completed"

\* When the scheduler ends up with every remaining job completed and
\* answering every request, wait reaches Done unless an exception has left
\* the generator.
WaitLivenessUnlessRaised ==
    <>[](AllCompleted /\ net = NoFailure)
        => <>(orig = <<>> \/ pc = "Raised" \/ WaitDone)

C10_Invariant ==
    /\ pc = "Done" =>
          \A id \in Range(orig) : id \in reported \/ id \in removedByCaller
    /\ \A id \in Range(orig) \ reported :
          /\ id \notin YieldedIds
          /\ id \in Range(jobs) \/ id \in removedByCaller

\* C10: wait does not reach Done while an identifier was neither reported
\* completed nor removed by the caller; such an identifier is never yielded
\* and never removed by wait, and with a non-empty list wait goes on to the
\* next poll.
C10_NoDoneWithoutCompleted ==
    /\ []C10_Invariant
    /\ [][(pc = "Check" /\ jobs # <<>>) => pc' = "Poll"]_vars

C10_Witness ==
    /\ pc = "Poll" /\ polls = MaxPolls /\ sleeps = MaxPolls
    /\ yielded # <<>>
    /\ \E id \in Range(jobs) : sched[id] = "failed" /\ id \notin reported

\* A pass is under way or just over: the query was made, the sleep or the
\* break that follows it was not.
AfterPoll == pc \in {"Iter", "Suspended", "Check", "Done", "Raised"}

\* As many sleeps as queries before a query, one less after it.
C16_Counts ==
    /\ pc = "Poll" => sleeps = polls
    /\ AfterPoll => polls = Inc(sleeps)
    /\ pc = "Done" => jobs = <<>>

\* C16: after every pass, successful or failed, that leaves the list
\* non-empty one sleep happens before the next query; a query is only made
\* first or right after a sleep; after the pass that empties the list there
\* is no sleep.
C16_SleepBetweenPolls ==
    /\ []C16_Counts
    /\ [][(pc = "Check" /\ jobs # <<>>)
             => (pc' = "Poll" /\ sleeps' = Inc(sleeps) /\ polls' = polls)]_vars
    /\ [][(pc' = "Poll" /\ pc # "Poll") => (pc = "Check" /\ jobs # <<>>)]_vars
    /\ [][sleeps' # sleeps => (pc = "Check" /\ jobs # <<>>)]_vars
    /\ [][polls' # polls => pc = "Poll"]_vars

\* Two passes, one failed and one that found the job running, each followed
\* by one sleep.
C16_Witness ==
    /\ pc = "Poll" /\ polls = 2 /\ sleeps = 2 /\ failedPolls = 1
    /\ jobs = orig /\ orig # <<>> /\ yielded = <<>>

IsPrefix(s, t) == Len(s) <= Len(t) /\ s = SubSeq(t, 1, Len(s))

C17_Invariant ==
    /\ \A i, k \in 1..Len(yielded) :
          i # k => yielded[i].job.uuid # yielded[k].job.uuid
    /\ Range(jobs) \cup YieldedIds = Range(orig)
    /\ Range(jobs) \cap YieldedIds = {}
    /\ pc = "Done" => YieldedIds = Range(orig)

\* C17: with distinct identifiers and a scheduler that returns the jobs asked
\* for, the remaining list never grows and loses only identifiers that are
\* yielded; an identifier is yielded at most once; a poll asks for the
\* remaining identifiers, in order, all of them unless a request fails, and
\* so never for one already yielded; at Done the yielded identifiers are
\* those passed to wait.
C17_RemainingList ==
    /\ []C17_Invariant
    /\ [][/\ LET Kept(x) == x \in Range(jobs') IN jobs' = SelectSeq(jobs, Kept)
          /\ Range(jobs') \subseteq Range(jobs)
          /\ Range(jobs) \ Range(jobs') \subseteq
                {yielded'[i].job.uuid : i \in (Len(yielded) + 1)..Len(yielded')}
          /\ Len(yielded') - Len(yielded) = Len(jobs) - Len(jobs')]_vars
    /\ [][(pc = "Poll" /\ pc' # "Poll" /\ jobs # <<>>) =>
             /\ PolledIds' # <<>>
             /\ IsPrefix(PolledIds', jobs)
             /\ Range(PolledIds') \cap YieldedIds = {}
             /\ result'.kind = "return" => PolledIds' = jobs]_vars

\* Two jobs yielded by different polls: the later poll asked for one only.
C17_Witness ==
    /\ pc = "Done" /\ Len(orig) = 2
    /\ Len(yielded) = 2 /\ yielded[1].poll = 1 /\ yielded[2].poll = 2
    /\ yielded[1].job.uuid = orig[2]
    /\ PolledIds = <<orig[1]>>

\* C18: a pass whose query raises JobClientError yields nothing and leaves
\* the list as it is, also when a chunk answered before the failing one
\* reported a job completed: from the failed query wait goes to the check
\* of the list, and on to the sleep.
C18_FailedPassNoEffect ==
    /\ []((result.kind = "raise" /\ result.exc = "JobClientError")
             => pc \in {"Check", "Poll"})
    /\ [][(pc = "Poll" /\ pc' # "Poll" /\ result'.exc = "JobClientError")
             => (pc' = "Check" /\ jobs' = jobs /\ yielded' = yielded)]_vars
    /\ [][(pc = "Check" /\ result.exc = "JobClientError")
             => (jobs' = jobs /\ yielded' = yielded)]_vars

\* The first chunk reports its job completed, the second is answered 500.
C18_Witness ==
    /\ pc = "Check" /\ result.exc = "JobClientError"
    /\ Len(wire) = 2
    /\ wire[1].resp.code = 200 /\ wire[1].resp.body[1].status = "completed"
    /\ wire[2].resp.code = 500
    /\ jobs = orig /\ yielded = <<>>

\* C20: wait of an empty list ends at once: nothing yielded, no request, no
\* exception for the consumer.
C20_EmptyListDone ==
    orig = <<>> =>
        /\ pc \in {"Poll", "Done"}
        /\ yielded = <<>> /\ wire = <<>>
        /\ result.kind # "raise"

----------------------------------------------------------------------------
(* Properties of the five operations *)

\* The response to the last request the call put on the wire.
LastResp == wire[Len(wire)].resp

Operations == {"submit", "query", "delete", "retry", "list"}

\* The call is over and its last request was answered with an HTTP status
\* out of codes.
AnsweredWith(codes) ==
    /\ pc = "Returned" /\ call.op \in Operations
    /\ wire # <<>>
    /\ LastResp.kind = "http" /\ LastResp.code \in codes

C12_SubmitOnly201 ==
    (AnsweredWith(CallerCodes \cup ServerCodes \cup PlainCodes)
     /\ call.op = "submit") =>
        IF LastResp.code = 201
        THEN result.kind = "return"
        ELSE result.kind = "raise" /\ result.exc = "JobClientError"

\* The requests of the call are all answered without an error.
NoRequestFails(n) ==
    net.at = 0 \/ net.at > n \/ RequestExc(net.answer) = "none"

\* C13: retry(jobs, retries) with retries >= 0, when every request succeeds,
\* issues one POST to the retry endpoint per identifier, in input order, each
\* with that one identifier and the retries value, whatever the configured
\* batch size.
C13_RetryNotBatched ==
    (Returned("retry") /\ JobsAsserted(call.jobs) /\ call.retries >= 0
     /\ NoRequestFails(Len(call.jobs.v))) =>
        /\ result.kind = "return"
        /\ Len(wire) = Len(call.jobs.v)
        /\ \A i \in 1..Len(wire) :
              /\ wire[i].method = "POST"
              /\ wire[i].path.endpoint = "/retry"
              /\ wire[i].path.query =
                    <<<<"job", call.jobs.v[i]>>, <<"retries", call.retries>>>>

\* Three identifiers, batch size 2: three requests.
C13_Witness ==
    /\ Returned("retry") /\ result.kind = "return"
    /\ call.jobs = PyList(<<"c", "a", "b">>) /\ call.retries = 2
    /\ cfg.batch_request_size = 2
    /\ Len(wire) = 3

\* The arguments the assertions of query, delete and retry turn down.
BadArguments ==
    /\ call.op \in {"query", "delete", "retry"}
    /\ \/ call.jobs.t # "list"
       \/ call.jobs.v = <<>>
       \/ call.op = "retry" /\ call.retries < 0

\* C15: query, delete and retry with a jobs argument that is not a list or
\* is an empty list, and retry with retries < 0, raise AssertionError and put
\* no request on the wire.
C15_AssertBeforeRequest ==
    (pc = "Returned" /\ BadArguments) =>
        /\ result.kind = "raise" /\ result.exc = "AssertionError"
        /\ wire = <<>>

\* retry of a proper list with retries = -1.
C15_Witness ==
    /\ Returned("retry") /\ call.jobs = PyList(<<"a", "b">>)
    /\ call.retries = -1
    /\ result.exc = "AssertionError" /\ wire = <<>>

\* Number of requests delete or retry sends when none fails.
RequestCount ==
    IF call.op = "retry" THEN Len(call.jobs.v)
    ELSE CeilDiv(Len(call.jobs.v), cfg.batch_request_size)

\* C19: in delete over several chunks and retry over several identifiers,
\* when the k-th request is answered with an error status the requests
\* 1..k-1 have been sent and answered with success, nothing is sent after
\* the k-th (no request that undoes the earlier ones either), and the caller
\* gets one JobClientError.
C19_StopAtFirstFailure ==
    (/\ pc = "Returned" /\ call.op \in {"delete", "retry"}
     /\ ~BadArguments
     /\ net.at \in 1..RequestCount
     /\ net.answer.kind = "http"
     /\ net.answer.code \in CallerCodes \cup ServerCodes) =>
        /\ Len(wire) = net.at
        /\ \A i \in 1..(net.at - 1) :
              /\ wire[i].resp.kind = "http" /\ wire[i].resp.code = 204
              /\ wire[i].method = IF call.op = "retry" THEN "POST" ELSE "DELETE"
              /\ wire[i].path =
                    IF call.op = "retry"
                    THEN [endpoint |-> "/retry",
                          query |-> <<<<"job", call.jobs.v[i]>>,
                                      <<"retries", call.retries>>>>]
                    ELSE ChunkPath(call.jobs.v, cfg.batch_request_size, i)
        /\ wire[net.at].resp = net.answer
        /\ result.kind = "raise" /\ result.exc = "JobClientError"

\* delete of three chunks, the second one answered with 500.
C19_Witness ==
    /\ Returned("delete") /\ Len(call.jobs.v) = 3
    /\ cfg.batch_request_size = 1
    /\ net.at = 2 /\ net.answer.code = 500
    /\ Len(wire) = 2 /\ result.exc = "JobClientError"

\* The number a value stands for, in tenths.
Tenths(v) == IF v.t = "float" THEN v.n ELSE 10 * v.n

IsNumber(v) == v.t \in {"int", "float"}

\* One job, well formed but for its priority and max_retries, which are
\* numbers; max_retries is the job's own or the default.
NumericCase ==
    /\ Returned("submit") /\ call.jobs.t = "list" /\ Len(call.jobs.v) = 1
    /\ LET j == call.jobs.v[1]
       IN  /\ DOMAIN j \subseteq {"uuid", "priority", "max_retries"}
           /\ "uuid" \in DOMAIN j => j["uuid"].s \in UUIDStrings
           /\ \A f \in DOMAIN j \ {"uuid"} : IsNumber(j[f])

MergedRetries ==
    IF "max_retries" \in DOMAIN call.jobs.v[1]
    THEN call.jobs.v[1]["max_retries"]
    ELSE cfg.default_job_settings["max_retries"]

\* C14: a job is accepted exactly when its priority, if any, lies in
\* [0, 100] and its own or merged max_retries is greater than 0.
C14_NumericBounds ==
    NumericCase =>
        LET j == call.jobs.v[1]
            priorityOk == "priority" \in DOMAIN j =>
                             (0 <= Tenths(j["priority"])
                              /\ Tenths(j["priority"]) <= 1000)
            retriesOk == Tenths(MergedRetries) > 0
        IN  (result = Raise("SchemaError")) <=> ~(priorityOk /\ retriesOk)

\* The same for jobs and defaults whose numbers are all integers.
NumericBoundsOfIntegers ==
    (/\ NumericCase
     /\ \A f \in DOMAIN call.jobs.v[1] \ {"uuid"} : call.jobs.v[1][f].t = "int"
     /\ MergedRetries.t = "int") =>
        LET j == call.jobs.v[1]
            priorityOk == "priority" \in DOMAIN j =>
                             (0 <= j["priority"].n /\ j["priority"].n <= 100)
            retriesOk == MergedRetries.n > 0
        IN  (result = Raise("SchemaError")) <=> ~(priorityOk /\ retriesOk)

====
